---- MODULE Spec2Model ----
\* normalize-exponential (src/src/index.js): normalisation of a float-like
\* string into exponential notation, by string manipulation only.
\*
\* A JavaScript string is modelled as a sequence of one-character strings,
\* so "5.0e+0" is <<"5", ".", "0", "e", "+", "0">>.  Indices in the operators
\* below are the 0-based indices of the source.
EXTENDS Integers, Sequences, FiniteSets, TLC

VARIABLES
    phase,      \* "start": factory not called; "ready": a normalizer exists; "threw": the factory threw
    theConfig,  \* the argument the factory was called with
    config,     \* the object built by Config(), closed over by the normalizer
    input,      \* the argument of the last call of the normalizer
    output,     \* the string the last call returned
    calls,      \* the number of calls made to the normalizer
    globals     \* the properties of the global object that the module's code assigns

vars == <<phase, theConfig, config, input, output, calls, globals>>

\* ---------------------------------------------------------------- bounds
\* digits of the base (before and after the separator together), digits of
\* the exponent, calls of one normalizer
MaxBaseDigits == 3
MaxExpDigits == 2
MaxCalls == 2

\* ------------------------------------------------------- JavaScript strings
Min(a, b) == IF a < b THEN a ELSE b
Max(a, b) == IF a > b THEN a ELSE b

Digits == {"0", "1", "2", "3", "4", "5", "6", "7", "8", "9"}

UndefinedStr == <<"u", "n", "d", "e", "f", "i", "n", "e", "d">>
NaNStr == <<"N", "a", "N">>

\* String.prototype.slice(from, to): negative indices count from the end,
\* both are clamped to the string, an empty range gives "".
sliceIndex(i, len) == IF i < 0 THEN Max(len + i, 0) ELSE Min(i, len)

sliceRange(s, a, b) == IF a >= b THEN <<>> ELSE SubSeq(s, a + 1, b)

slice(s, from, to) == sliceRange(s, sliceIndex(from, Len(s)), sliceIndex(to, Len(s)))

\* String.prototype.slice(from)
sliceFrom(s, from) == slice(s, from, Len(s))

\* String.prototype.indexOf(sub): first 0-based position of sub, or -1
leastOr(hits, none) == IF hits = {} THEN none ELSE CHOOSE i \in hits : \A j \in hits : i <= j

indexOf(s, sub) ==
    leastOr({i \in 0..(Len(s) - Len(sub)) : SubSeq(s, i + 1, i + Len(sub)) = sub}, -1)

\* s[i]: the one-character string at i; out of range it is undefined, which
\* equals no string (written <<>> here: the strings it is compared with are
\* never empty).
charAt(s, i) == IF i >= 0 /\ i < Len(s) THEN <<s[i + 1]>> ELSE <<>>

\* String.prototype.toLowerCase, one character
lowerChar(c) ==
    CASE c = "E" -> "e"
      [] c = "N" -> "n"
      [] OTHER -> c

\* toLowerCase left out: the string is used as written
toLowerCaseSkipped(s) == s

toLowerCase(s) == [i \in 1..Len(s) |-> lowerChar(s[i])]

WhiteSpace == {" "}

RECURSIVE trimStart(_)
trimStart(s) == IF s # <<>> /\ Head(s) \in WhiteSpace THEN trimStart(Tail(s)) ELSE s

RECURSIVE trimEnd(_)
trimEnd(s) ==
    IF s # <<>> /\ s[Len(s)] \in WhiteSpace THEN trimEnd(SubSeq(s, 1, Len(s) - 1)) ELSE s

\* String.prototype.trim
trim(s) == trimEnd(trimStart(s))

digitVal(c) ==
    CASE c = "0" -> 0 [] c = "1" -> 1 [] c = "2" -> 2 [] c = "3" -> 3 [] c = "4" -> 4
      [] c = "5" -> 5 [] c = "6" -> 6 [] c = "7" -> 7 [] c = "8" -> 8 [] c = "9" -> 9

digitChar(d) ==
    CASE d = 0 -> "0" [] d = 1 -> "1" [] d = 2 -> "2" [] d = 3 -> "3" [] d = 4 -> "4"
      [] d = 5 -> "5" [] d = 6 -> "6" [] d = 7 -> "7" [] d = 8 -> "8" [] d = 9 -> "9"

\* the length of the longest prefix of s made of decimal digits
RECURSIVE digitPrefixLen(_)
digitPrefixLen(s) ==
    IF s # <<>> /\ Head(s) \in Digits THEN 1 + digitPrefixLen(Tail(s)) ELSE 0

RECURSIVE digitsValue(_)
digitsValue(s) ==
    IF s = <<>> THEN 0 ELSE 10 * digitsValue(SubSeq(s, 1, Len(s) - 1)) + digitVal(s[Len(s)])

\* A JavaScript number as far as the code needs it: an integer or NaN.
\* (Integers are exact in a double below 2^53; the exponents of the model
\* are far below that.)
Num(n) == [nan |-> FALSE, val |-> n]
NaN == [nan |-> TRUE, val |-> 0]

\* parseInt(s): skips white space, reads an optional sign and the longest
\* run of decimal digits, ignores what follows; NaN when there is no digit.
\* parseDigits: the digits after the sign; parseSigned: from the sign on.
parseDigits(negative, body, n) ==
    IF n = 0 THEN NaN
    ELSE IF negative THEN Num(-digitsValue(SubSeq(body, 1, n)))
    ELSE Num(digitsValue(SubSeq(body, 1, n)))

parseBody(negative, body) == parseDigits(negative, body, digitPrefixLen(body))

parseSigned(s) ==
    IF s # <<>> /\ Head(s) \in {"+", "-"}
    THEN parseBody(Head(s) = "-", Tail(s))
    ELSE parseBody(FALSE, s)

parseInt(str) == parseSigned(trimStart(str))

\* '' + n for a non-negative integer n
RECURSIVE natToString(_)
natToString(n) ==
    IF n < 10 THEN <<digitChar(n)>> ELSE natToString(n \div 10) \o <<digitChar(n % 10)>>

\* '' + x for a number x that is not negative
numToString(x) == IF x.nan THEN NaNStr ELSE natToString(x.val)

\* ------------------------------------------------------------ configuration
\* A property of the configuration argument: absent (undefined) or a string.
Absent == [defined |-> FALSE, val |-> <<>>]
Given(s) == [defined |-> TRUE, val |-> s]

\* '' + v
concatEmpty(v) == IF v.defined THEN v.val ELSE UndefinedStr

\* a || b on strings: the empty string is the only falsy string
orElse(a, b) == IF a = <<>> THEN b ELSE a

\* function Config(config): ('' + config.decimalPoint) || '.', likewise the
\* exponent symbol ('+' binds tighter than '||').
Config(cfg) ==
    [decimalPoint |-> orElse(concatEmpty(cfg.decimalPoint), <<".">>),
     exponentSymbol |-> orElse(concatEmpty(cfg.exponentSymbol), <<"e">>)]

getDecimalPoint(cfg) == cfg.decimalPoint

getExponentSymbol(cfg) == cfg.exponentSymbol

\* ------------------------------------------------------------- trimZeroes
\* the number of consecutive "0" of s from the 1-based position i on
RECURSIVE zeroRun(_, _)
zeroRun(s, i) == IF i <= Len(s) /\ s[i] = "0" THEN 1 + zeroRun(s, i + 1) ELSE 0

RECURSIVE stripTrailingZeroes(_)
stripTrailingZeroes(s) ==
    IF s # <<>> /\ s[Len(s)] = "0" THEN stripTrailingZeroes(SubSeq(s, 1, Len(s) - 1)) ELSE s

\* numStr.replace(/^(-)?0+|0+$/g, '$1'): a leading run of zeroes, with the
\* minus before it if there is one, is replaced by that minus; then the run
\* of zeroes that ends the rest is removed.  replaceRun: the run of zeroes
\* starts at the 1-based position first and is run long.
replaceRun(numStr, first, run) ==
    IF run > 0
    THEN SubSeq(numStr, 1, first - 1)
         \o stripTrailingZeroes(SubSeq(numStr, first + run, Len(numStr)))
    ELSE stripTrailingZeroes(numStr)

replaceFrom(numStr, first) == replaceRun(numStr, first, zeroRun(numStr, first))

replaceZeroes(numStr) ==
    replaceFrom(numStr, IF numStr # <<>> /\ numStr[1] = "-" THEN 2 ELSE 1)

\* lines 57-59 left out: nothing is appended after a final separator
appendZeroSkipped(cfg, numStr) == numStr

\* lines 57-59
appendZero(cfg, numStr) ==
    IF charAt(numStr, Len(numStr) - 1) = getDecimalPoint(cfg)
    THEN numStr \o <<"0">>
    ELSE numStr

\* lines 61-63
prependZero(cfg, numStr) ==
    IF charAt(numStr, 0) = getDecimalPoint(cfg) THEN <<"0">> \o numStr ELSE numStr

trimZeroes(cfg, numStr) == prependZero(cfg, appendZero(cfg, replaceZeroes(numStr)))

\* ------------------------------------------------- getBasePart, getExpPart
getBasePart(cfg, expStr) == slice(expStr, 0, indexOf(expStr, getExponentSymbol(cfg)))

getExpPart(cfg, expStr) == sliceFrom(expStr, indexOf(expStr, getExponentSymbol(cfg)))

\* --------------------------------------------------------- normalizeExpStr
\* lines 119-122 left out: no '+' is put after the marker
addPlusSkipped(cfg, expStr, expIndex) == expStr

\* lines 119-122, expIndex being the value assigned on line 117
addPlus(cfg, expStr, expIndex) ==
    IF charAt(expStr, expIndex + 1) # <<"+">> /\ charAt(expStr, expIndex + 1) # <<"-">>
    THEN slice(expStr, 0, expIndex + 1) \o <<"+">> \o sliceFrom(expStr, expIndex + 1)
    ELSE expStr

\* lines 117-122
signExponent(cfg, expStr) == addPlus(cfg, expStr, indexOf(expStr, getExponentSymbol(cfg)))

\* lines 113-115
addExponent(cfg, expStr, expIndex) ==
    IF expIndex < 0 THEN expStr \o getExponentSymbol(cfg) \o <<"+", "0">> ELSE expStr

\* lines 109-111
addLeadingZero(expStr, decPointIdx) == IF decPointIdx = 0 THEN <<"0">> \o expStr ELSE expStr

\* lines 109-124
normalizeFromZero(cfg, expStr, decPointIdx, expIndex) ==
    signExponent(cfg, addExponent(cfg, addLeadingZero(expStr, decPointIdx), expIndex))

\* lines 106-124, expStr being the value assigned on line 105
normalizeFromInserted(cfg, expStr, decPointIdx) ==
    normalizeFromZero(cfg, expStr, decPointIdx, indexOf(expStr, getExponentSymbol(cfg)))

\* lines 101-124, with the values assigned on lines 97-99
normalizeFromIndices(cfg, expStr, decPointIdx, expIndex) ==
    IF decPointIdx < 0
    THEN IF expIndex < 0
         THEN expStr \o getDecimalPoint(cfg) \o <<"0">> \o getExponentSymbol(cfg) \o <<"+", "0">>
         ELSE normalizeFromInserted(cfg,
                  slice(expStr, 0, expIndex) \o getDecimalPoint(cfg) \o <<"0">>
                      \o sliceFrom(expStr, expIndex),
                  decPointIdx)
    ELSE normalizeFromZero(cfg, expStr, decPointIdx, expIndex)

\* lines 98-124, expStr being the value assigned on line 97
normalizeLowered(cfg, expStr) ==
    normalizeFromIndices(cfg, expStr, indexOf(expStr, getDecimalPoint(cfg)),
                         indexOf(expStr, getExponentSymbol(cfg)))

normalizeExpStr(cfg, expStr) == normalizeLowered(cfg, toLowerCase(trim(expStr)))

\* --------------------------------------------------- shiftBaseDecimalPoint
\* Line 134 ends its var statement with ';', so the three names assigned on
\* lines 135-137 are not declared anywhere: in non-strict code each
\* assignment creates or overwrites a property of the global object.
assignIndices(fBasePart, numPlaces, idx) ==
    [defined |-> TRUE,
     decPointIdx |-> idx,
     phantomDecPointIdx |-> IF idx < 0 THEN Len(fBasePart) ELSE idx,
     newDecimalPointIdx |-> (IF idx < 0 THEN Len(fBasePart) ELSE idx) + numPlaces]

shiftBaseDecimalPointWrites(cfg, fBasePart, numPlaces) ==
    assignIndices(fBasePart, numPlaces, indexOf(fBasePart, getDecimalPoint(cfg)))

\* line 141, fBasePart being the value assigned on line 139
insertDecimalPoint(cfg, fBasePart, newDecimalPointIdx) ==
    trimZeroes(cfg, slice(fBasePart, 0, newDecimalPointIdx) \o getDecimalPoint(cfg)
                    \o sliceFrom(fBasePart, newDecimalPointIdx))

\* lines 139-141, g holding the values assigned on lines 135-137
shiftWithIndices(cfg, fBasePart, g) ==
    insertDecimalPoint(cfg,
        slice(fBasePart, 0, g.decPointIdx)
            \o sliceFrom(fBasePart, g.decPointIdx + Len(getDecimalPoint(cfg))),
        g.newDecimalPointIdx)

shiftBaseDecimalPoint(cfg, fBasePart, numPlaces) ==
    shiftWithIndices(cfg, fBasePart, shiftBaseDecimalPointWrites(cfg, fBasePart, numPlaces))

\* ----------------------------------------------------------- shiftExponent
\* line 155: expValue += numPlaces
addPlaces(expValue, numPlaces) ==
    IF expValue.nan THEN NaN ELSE Num(expValue.val + numPlaces)

\* line 160 writing '+' whatever the sign of the value
renderExponentAlwaysPlus(cfg, expValue) ==
    getExponentSymbol(cfg) \o <<"+">>
        \o numToString(IF ~expValue.nan /\ expValue.val < 0 THEN Num(-expValue.val) ELSE expValue)

\* lines 156-160
renderExponent(cfg, expValue) ==
    IF ~expValue.nan /\ expValue.val < 0
    THEN getExponentSymbol(cfg) \o <<"-">> \o numToString(Num(-expValue.val))
    ELSE getExponentSymbol(cfg) \o <<"+">> \o numToString(expValue)

shiftExponent(cfg, fExpPart, numPlaces) ==
    renderExponent(cfg,
        addPlaces(parseInt(sliceFrom(fExpPart, indexOf(fExpPart, getExponentSymbol(cfg))
                                               + Len(getExponentSymbol(cfg)))),
                  numPlaces))

\* ------------------------------------------------------- getShiftNumPlaces
\* the for loop of lines 180-199, from index i with shiftNumPlaces = n
RECURSIVE shiftLoop(_, _, _, _, _)
shiftLoop(fStr, decPoint, isRightShift, i, n) ==
    IF i >= Len(fStr) THEN n
    ELSE IF isRightShift /\ i > 0
         THEN IF charAt(fStr, i) = decPoint
              THEN shiftLoop(fStr, decPoint, isRightShift, i + 1, n)
              ELSE IF charAt(fStr, i) # <<"0">>
                   THEN (n + 1) + 1
                   ELSE shiftLoop(fStr, decPoint, isRightShift, i + 1, n + 1)
         ELSE IF charAt(fStr, i) = decPoint
              THEN n + 1
              ELSE shiftLoop(fStr, decPoint, isRightShift, i + 1, n - 1)

getShiftNumPlaces(cfg, fStr) ==
    IF indexOf(fStr, getDecimalPoint(cfg)) < 0
    THEN -(Len(getBasePart(cfg, fStr)) - 1)
    ELSE shiftLoop(fStr, getDecimalPoint(cfg),
                   indexOf(fStr, <<"0">> \o getDecimalPoint(cfg)) = 0, 0, 0)

\* --------------------------------------------------------------- normalizer
\* the values of the var statement of lines 210-215
localsOfAbsolute(cfg, normExpStr, isNegative, absoluteExpStr) ==
    [normExpStr |-> normExpStr,
     isNegative |-> isNegative,
     absoluteExpStr |-> absoluteExpStr,
     shiftNumPlaces |-> getShiftNumPlaces(cfg, absoluteExpStr),
     basePart |-> getBasePart(cfg, absoluteExpStr),
     expPart |-> getExpPart(cfg, absoluteExpStr)]

localsOfSigned(cfg, normExpStr, isNegative) ==
    localsOfAbsolute(cfg, normExpStr, isNegative,
                     sliceFrom(normExpStr, IF isNegative THEN 1 ELSE 0))

localsOfNormalized(cfg, normExpStr) ==
    localsOfSigned(cfg, normExpStr, indexOf(normExpStr, <<"-">>) = 0)

normalizerLocals(cfg, expStr) == localsOfNormalized(cfg, normalizeExpStr(cfg, expStr))

\* line 217 passing shiftNumPlaces, not its negation, to shiftExponent
assembleSameDirection(cfg, l) ==
    (IF l.isNegative THEN <<"-">> ELSE <<>>)
    \o shiftBaseDecimalPoint(cfg, l.basePart, l.shiftNumPlaces)
    \o shiftExponent(cfg, l.expPart, l.shiftNumPlaces)

\* line 217
assemble(cfg, l) ==
    (IF l.isNegative THEN <<"-">> ELSE <<>>)
    \o shiftBaseDecimalPoint(cfg, l.basePart, l.shiftNumPlaces)
    \o shiftExponent(cfg, l.expPart, -l.shiftNumPlaces)

normalizer(cfg, expStr) == assemble(cfg, normalizerLocals(cfg, expStr))

\* what one call of the normalizer leaves in the global object
writesOfLocals(cfg, l) == shiftBaseDecimalPointWrites(cfg, l.basePart, l.shiftNumPlaces)

normalizerWrites(cfg, expStr) == writesOfLocals(cfg, normalizerLocals(cfg, expStr))

\* ------------------------------------------------------------------ inputs
\* the digits the enumerated inputs are written with
InputDigits == {"0", "1"}

DigitStrings(n) == UNION {[1..k -> InputDigits] : k \in 0..n}

\* the arguments the factory is called with: none, {}, and objects that set
\* both options ('' is a string like any other)
NoArgument == [given |-> FALSE, decimalPoint |-> Absent, exponentSymbol |-> Absent]
ConfigObject(dp, es) == [given |-> TRUE, decimalPoint |-> dp, exponentSymbol |-> es]

FactoryArguments ==
    {NoArgument,
     ConfigObject(Absent, Absent),
     ConfigObject(Given(<<".">>), Given(<<"e">>)),
     ConfigObject(Given(<<",">>), Given(<<>>))}

\* the separator and the marker a caller writes the numbers with: the
\* configured ones when one character long, '.' and 'e' otherwise
WrittenSeparator(cfg) == IF Len(cfg.decimalPoint) = 1 THEN cfg.decimalPoint[1] ELSE "."
WrittenMarker(cfg) == IF Len(cfg.exponentSymbol) = 1 THEN cfg.exponentSymbol[1] ELSE "e"

Pads == {<<>>, <<" ">>}
Signs == {<<>>, <<"-">>}
ExpSigns == {<<>>, <<"+">>, <<"-">>}

\* digits with at most one separator, n digits at most and one at least
BaseParts(sep, n) ==
    (DigitStrings(n) \ {<<>>})
    \cup {i \o <<sep>> \o f : <<i, f>> \in
             {p \in DigitStrings(n) \X DigitStrings(n) :
                 Len(p[1]) + Len(p[2]) >= 1 /\ Len(p[1]) + Len(p[2]) <= n}}

\* nothing, or a marker, an optional sign and 1..n digits
ExpParts(markers, n) ==
    {<<>>} \cup {<<m>> \o sg \o d : m \in markers, sg \in ExpSigns,
                                    d \in DigitStrings(n) \ {<<>>}}

\* float-like strings: optional '-', digits with at most one separator,
\* optional marker with optional sign and digits
Numerals(sep, markers, nBase, nExp) ==
    {sg \o b \o e : sg \in Signs, b \in BaseParts(sep, nBase), e \in ExpParts(markers, nExp)}

\* the arguments of the normalizer: the numerals within the bounds, and the
\* one-digit numerals with the marker in either case and blanks around them
NumericStrings(sep, marker) ==
    Numerals(sep, {marker}, MaxBaseDigits, MaxExpDigits)
    \cup {l \o n \o r : l \in Pads, r \in Pads, n \in Numerals(sep, {marker, "E"}, 1, 1)}

\* the variable config before the factory has assigned it
NoConfig == [decimalPoint |-> <<>>, exponentSymbol |-> <<>>]

\* the three global names before the first call: not defined
NoGlobals == [defined |-> FALSE, decPointIdx |-> 0, phantomDecPointIdx |-> 0,
              newDecimalPointIdx |-> 0]

\* ----------------------------------------------------------- state machine
Init ==
    /\ phase = "start"
    /\ theConfig = NoArgument
    /\ config = NoConfig
    /\ input = <<>>
    /\ output = <<>>
    /\ calls = 0
    /\ globals = NoGlobals

\* module.exports = function normalizeExponential(theConfig): new Config(theConfig)
\* reads two properties of theConfig, which throws a TypeError when theConfig
\* is undefined; otherwise the normalizer closes over the result.
normalizeExponential(arg) ==
    /\ phase = "start"
    /\ theConfig' = arg
    /\ IF arg.given
       THEN /\ phase' = "ready"
            /\ config' = Config(arg)
       ELSE /\ phase' = "threw"
            /\ UNCHANGED config
    /\ UNCHANGED <<input, output, calls, globals>>

\* one call normalizer(expStr)
Apply(expStr) ==
    /\ input' = expStr
    /\ output' = normalizer(config, expStr)
    /\ globals' = normalizerWrites(config, expStr)
    /\ calls' = calls + 1
    /\ UNCHANGED <<phase, theConfig, config>>

\* the first call, on a float-like string
Call ==
    /\ phase = "ready"
    /\ calls = 0
    /\ \E s \in NumericStrings(WrittenSeparator(config), WrittenMarker(config)) : Apply(s)

\* a later call, on the string the previous call returned
CallOnOutput ==
    /\ phase = "ready"
    /\ calls >= 1
    /\ calls < MaxCalls
    /\ Apply(output)

Next ==
    \/ \E arg \in FactoryArguments : normalizeExponential(arg)
    \/ Call
    \/ CallOnOutput

Spec == Init /\ [][Next]_vars

\* ------------------------------------------------- reading decimal numerals
\* The definitions of this section read a string as a decimal numeral with
\* the grammar   -? digits (sep digits)? (marker [+-]? digits)?   and say
\* which number it denotes.  They are independent of the code above.

\* the string a caller means by s: surrounding blanks dropped, an upper-case
\* marker written in lower case
Plain(s) ==
    LET inked == {i \in 1..Len(s) : s[i] # " "}
        first == CHOOSE i \in inked : \A j \in inked : i <= j
        last == CHOOSE i \in inked : \A j \in inked : j <= i
        kept == IF inked = {} THEN <<>> ELSE SubSeq(s, first, last)
    IN [i \in 1..Len(kept) |-> IF kept[i] = "E" THEN "e" ELSE kept[i]]

\* 1-based position of the first c in s, 0 when there is none
PosOf(s, c) ==
    IF \E i \in 1..Len(s) : s[i] = c
    THEN CHOOSE i \in 1..Len(s) : s[i] = c /\ \A j \in 1..(i - 1) : s[j] # c
    ELSE 0

Count(s, c) == Cardinality({i \in 1..Len(s) : s[i] = c})

AllDigits(s) == \A i \in 1..Len(s) : s[i] \in Digits

IsMinus(s) == s # <<>> /\ s[1] = "-"

Unsigned(s) == IF IsMinus(s) THEN Tail(s) ELSE s

\* what stands before the marker, without the sign
BaseOf(s, marker) ==
    LET u == Unsigned(s)
        m == PosOf(u, marker)
    IN IF m = 0 THEN u ELSE SubSeq(u, 1, m - 1)

\* what stands after the marker; <<>> when there is no marker
ExponentOf(s, marker) ==
    LET u == Unsigned(s)
        m == PosOf(u, marker)
    IN IF m = 0 THEN <<>> ELSE SubSeq(u, m + 1, Len(u))

HasMarker(s, marker) == PosOf(Unsigned(s), marker) # 0

IntDigitsOf(s, sep, marker) ==
    LET b == BaseOf(s, marker)
        p == PosOf(b, sep)
    IN IF p = 0 THEN b ELSE SubSeq(b, 1, p - 1)

FracDigitsOf(s, sep, marker) ==
    LET b == BaseOf(s, marker)
        p == PosOf(b, sep)
    IN IF p = 0 THEN <<>> ELSE SubSeq(b, p + 1, Len(b))

ExponentDigitsOf(s, marker) ==
    LET e == ExponentOf(s, marker)
    IN IF e # <<>> /\ e[1] \in {"+", "-"} THEN Tail(e) ELSE e

RECURSIVE DecimalValue(_)
DecimalValue(d) ==
    IF d = <<>> THEN 0
    ELSE 10 * DecimalValue(SubSeq(d, 1, Len(d) - 1))
         + (CHOOSE v \in 0..9 : digitChar(v) = d[Len(d)])

\* the integer written after the marker, 0 when the numeral has no marker
ExponentValue(s, marker) ==
    LET e == ExponentOf(s, marker)
        v == DecimalValue(ExponentDigitsOf(s, marker))
    IN IF e # <<>> /\ e[1] = "-" THEN -v ELSE v

IsNumeral(s, sep, marker) ==
    /\ AllDigits(IntDigitsOf(s, sep, marker))
    /\ AllDigits(FracDigitsOf(s, sep, marker))
    /\ Len(IntDigitsOf(s, sep, marker)) + Len(FracDigitsOf(s, sep, marker)) >= 1
    /\ HasMarker(s, marker) =>
          /\ ExponentDigitsOf(s, marker) # <<>>
          /\ AllDigits(ExponentDigitsOf(s, marker))

RECURSIVE DropLeadingZeros(_)
DropLeadingZeros(d) == IF d # <<>> /\ d[1] = "0" THEN DropLeadingZeros(Tail(d)) ELSE d

RECURSIVE TrailingZeros(_)
TrailingZeros(d) ==
    IF d # <<>> /\ d[Len(d)] = "0" THEN 1 + TrailingZeros(SubSeq(d, 1, Len(d) - 1)) ELSE 0

\* The number a numeral denotes, exactly: its significant digits (no zero
\* at either end) and the power of ten that its last significant digit
\* counts; zero is the empty digit string with power 0 and no sign.
ValueOf(s, sep, marker) ==
    LET all == IntDigitsOf(s, sep, marker) \o FracDigitsOf(s, sep, marker)
        lead == DropLeadingZeros(all)
        tz == TrailingZeros(lead)
        sig == SubSeq(lead, 1, Len(lead) - tz)
        pow == ExponentValue(s, marker) - Len(FracDigitsOf(s, sep, marker)) + tz
    IN IF sig = <<>>
       THEN [negative |-> FALSE, digits |-> <<>>, power |-> 0]
       ELSE [negative |-> IsMinus(s), digits |-> sig, power |-> pow]

IsZero(s, sep, marker) == ValueOf(s, sep, marker).digits = <<>>

\* the configuration names one-character symbols
ProperConfig == Len(config.decimalPoint) = 1 /\ Len(config.exponentSymbol) = 1
Sep == config.decimalPoint[1]
Marker == config.exponentSymbol[1]
DotE == [decimalPoint |-> <<".">>, exponentSymbol |-> <<"e">>]

\* the normalizer has been called, with one-character symbols configured, on
\* a numeral written with them
NumeralCall ==
    /\ phase = "ready"
    /\ calls >= 1
    /\ ProperConfig
    /\ IsNumeral(Plain(input), Sep, Marker)

\* ------------------------------------------------------------------ claims
OutBase == BaseOf(output, Marker)
OutInt == IntDigitsOf(output, Sep, Marker)
OutFrac == FracDigitsOf(output, Sep, Marker)

\* C1: with '.' and 'e' configured, the base of the output of a numeral has
\* exactly one digit before the separator and that digit is not zero, unless
\* the numeral denotes zero, and then the base is exactly "0.0".
C1_NormalizedBase ==
    (NumeralCall /\ config = DotE) =>
        IF IsZero(Plain(input), ".", "e")
        THEN OutBase = <<"0", ".", "0">>
        ELSE /\ Len(OutInt) = 1
             /\ OutInt[1] \in Digits \ {"0"}
             /\ PosOf(OutBase, ".") = 2

\* C2: the output of a numeral is a numeral that denotes the same number,
\* compared as digit strings with an integer power of ten.
C2_ValuePreserved ==
    NumeralCall =>
        /\ IsNumeral(output, Sep, Marker)
        /\ ValueOf(output, Sep, Marker) = ValueOf(Plain(input), Sep, Marker)

\* a call on a numeral with a leading zero, a trailing zero, magnitude below
\* one and a negative exponent
C2_Witness ==
    /\ NumeralCall
    /\ input = <<"-", "0", ".", "1", "0", "e", "-", "0", "1">>
    /\ output = <<"-", "1", ".", "0", "e", "-", "2">>

\* C3: normalizing the output of the normalizer gives that output again.
C3_Idempotent ==
    (phase = "ready" /\ ProperConfig /\ calls >= 2) => output = input

\* C4: the output of a numeral is an optional '-', one digit, the separator,
\* one or more digits, the marker, '+' or '-', one or more digits, and
\* nothing else.
C4_CanonicalShape ==
    NumeralCall =>
        LET u == Unsigned(output)
            m == PosOf(u, Marker)
            frac == SubSeq(u, 3, m - 1)
            exp == SubSeq(u, m + 2, Len(u))
        IN /\ Len(u) >= 6
           /\ u[1] \in Digits
           /\ u[2] = Sep
           /\ m >= 4
           /\ frac # <<>> /\ AllDigits(frac)
           /\ m + 1 <= Len(u) /\ u[m + 1] \in {"+", "-"}
           /\ exp # <<>> /\ AllDigits(exp)

\* a negative numeral without fraction is given a fraction digit, and ',' is
\* the separator of the output when it is the configured one
C4_Witness ==
    /\ NumeralCall
    /\ Sep = ","
    /\ input = <<"-", "1", ",", "e", "1">>
    /\ output = <<"-", "1", ",", "0", "e", "+", "1">>

\* the factory argument leaves an option out (or is left out itself)
OmitsOption(arg) == ~arg.given \/ ~arg.decimalPoint.defined \/ ~arg.exponentSymbol.defined

\* C5: a normalizer built without configuration, or with one that omits an
\* option, is built successfully and returns what a normalizer built with
\* '.' and 'e' returns.
C5_DefaultsApplied ==
    (phase # "start" /\ OmitsOption(theConfig)) =>
        /\ phase = "ready"
        /\ calls >= 1 => output = normalizer(DotE, input)

\* C6: for an unsigned numeral s, normalize("-" + s) is "-" + normalize(s).
C6_SignCommutes ==
    (NumeralCall /\ input # <<>> /\ input[1] \notin {" ", "-"}) =>
        normalizer(config, <<"-">> \o input) = <<"-">> \o output

\* C7: blanks around a numeral and an upper-case marker do not change the
\* result, and the marker of the output is the configured lower-case one.
C7_InputTolerance ==
    NumeralCall =>
        /\ output = normalizer(config, Plain(input))
        /\ Count(output, "E") = 0
        /\ Count(output, Marker) = 1

\* a call on a padded numeral with an upper-case marker
C7_Witness ==
    /\ NumeralCall
    /\ input = <<" ", "1", "E", "1", " ">>
    /\ output = <<"1", ".", "0", "e", "+", "1">>

\* C8: a call of the normalizer writes no global variable.
C8_NoGlobalWrites == ~globals.defined

\* the shift computed for the last call
ShiftOfCall == normalizerLocals(config, input).shiftNumPlaces

\* C9: with E the integer of the exponent part of the numeral and n the
\* shift applied to its base, the exponent part of the output is the marker,
\* '+' if E - n >= 0 else '-', and the digits of |E - n| without leading
\* zeros; zero is written "+0".
C9_ExponentAdjusted ==
    NumeralCall =>
        LET v == ExponentValue(Plain(input), Marker) - ShiftOfCall
            m == PosOf(output, Marker)
            sign == output[m + 1]
            digits == SubSeq(output, m + 2, Len(output))
        IN /\ m > 0 /\ m + 2 <= Len(output)
           /\ sign = (IF v >= 0 THEN "+" ELSE "-")
           /\ AllDigits(digits)
           /\ (digits[1] = "0" => digits = <<"0">>)
           /\ DecimalValue(digits) = (IF v >= 0 THEN v ELSE -v)

\* an exponent with leading zero and a left shift that makes the result
\* change sign
C9_Witness ==
    /\ NumeralCall
    /\ input = <<"1", "1", "e", "-", "0", "1">>
    /\ ShiftOfCall = -1
    /\ output = <<"1", ".", "1", "e", "+", "0">>

\* C10: the canonical string of a numeral has exactly one separator and one
\* marker, the separator before the marker, and the marker is followed by
\* '+' or '-' and at least one digit.
C10_CanonicalString ==
    NumeralCall =>
        LET c == normalizeExpStr(config, input)
            m == PosOf(c, Marker)
            exp == SubSeq(c, m + 2, Len(c))
        IN /\ Count(c, Sep) = 1
           /\ Count(c, Marker) = 1
           /\ PosOf(c, Sep) < m
           /\ m + 1 <= Len(c) /\ c[m + 1] \in {"+", "-"}
           /\ exp # <<>> /\ AllDigits(exp)

\* a numeral with the separator right after the minus and an unsigned exponent
C10_Witness ==
    /\ NumeralCall
    /\ input = <<"-", ".", "1", "e", "1">>
    /\ normalizeExpStr(config, input) = <<"-", ".", "1", "e", "+", "1">>

====
